---- MODULE Spec2Model ----
(***************************************************************************)
(* Model of the Gemini move relay: the serverless handler                  *)
(* (api/gemini-move.js, kept as src/unnamed/part_000) with its             *)
(* fetchWithRetry loop, and the standalone Express proxy (src/proxy.js).   *)
(* Strings that the code builds from parts (template literals) are kept    *)
(* as tuples of their parts; texts that the code scans character by        *)
(* character are sequences of one-character strings.                       *)
(***************************************************************************)
EXTENDS Integers, Sequences, FiniteSets, TLC

VARIABLES apiKey, server, live, req, pc, i, calls, inflight, attempts, waits,
          upstream, resp

vars == <<apiKey, server, live, req, pc, i, calls, inflight, attempts, waits,
          upstream, resp>>

(***************************************************************************)
(* Program constants.                                                      *)
(***************************************************************************)
MaxRetries == 5

BackoffBaseMs == 1000
JitterRangeMs == 1000

CatchAllStatus == 500

(***************************************************************************)
(* Inputs the environment may supply.                                      *)
(***************************************************************************)
RequestIds == {1, 2}

\* process.env.GEMINI_API_KEY: unset, set to the empty string, or set.
Unset == [has |-> FALSE, val |-> ""]
Str(s) == [has |-> TRUE, val |-> s]
ApiKeys == {Unset, Str(""), Str("secret")}

\* Math.random() * 1000 truncated to whole milliseconds: samples of [0, 1000).
JitterSamples == {0, JitterRangeMs - 1}

Methods == {"OPTIONS", "POST", "GET"}

Fields == {Unset, Str(""), Str("x")}
NoBody == [present |-> FALSE, fen |-> Unset, prompt |-> Unset, model |-> Unset]
HandlerBodies ==
    {NoBody} \cup {[present |-> TRUE, fen |-> f, prompt |-> Unset, model |-> Unset] : f \in Fields}
ProxyBodies ==
    {NoBody} \cup {[present |-> TRUE, fen |-> Unset, prompt |-> p, model |-> m] : p \in Fields, m \in Fields}

NoRequest == [entry |-> "none", method |-> "none", body |-> NoBody]

(***************************************************************************)
(* Upstream JSON documents, described by how far the path                  *)
(* candidates[0].content.parts[0].text and error.message can be followed.  *)
(***************************************************************************)
\* The grave accent (U+0060) cannot be written inside a TLA+ string.
Backtick == "GRAVE"
Texts == { <<"N", "f", "6", "\n">>,
           <<"'", "e", "4", "'", ".">>,
           <<"Q", "x", "g", "7", " ", "(", "b", "e", "s", "t", ")">>,
           <<" ">>,
           <<".">>,
           <<"e", ".", "p", ".">>,
           <<" ", Backtick, "e", "4", Backtick>> }

Json(top, candidates, content, parts, text, chars, error, message) ==
    [top |-> top, candidates |-> candidates, content |-> content, parts |-> parts,
     text |-> text, chars |-> chars, error |-> error, message |-> message]

NotJson == Json("invalid", "absent", "absent", "absent", "absent", <<>>, "absent", Unset)
JsonNull == Json("null", "absent", "absent", "absent", "absent", <<>>, "absent", Unset)

Paths == { <<"absent", "absent", "absent", "absent">>,
           <<"null", "absent", "absent", "absent">>,
           <<"empty", "absent", "absent", "absent">>,
           <<"nullElem", "absent", "absent", "absent">>,
           <<"elem", "absent", "absent", "absent">>,
           <<"elem", "object", "absent", "absent">>,
           <<"elem", "object", "empty", "absent">>,
           <<"elem", "object", "elem", "absent">>,
           <<"elem", "object", "elem", "empty">> }

ErrorParts == { <<"null", Unset>>, <<"object", Unset>>, <<"object", Str("")>>,
                <<"object", Str("quota exceeded")>> }

UnusableJson ==
    {JsonNull, Json("scalar", "absent", "absent", "absent", "absent", <<>>, "absent", Unset)}
    \cup { Json("object", c[1], c[2], c[3], c[4], <<>>, "absent", Unset) : c \in Paths }
    \cup { Json("object", "absent", "absent", "absent", "absent", <<>>, e[1], e[2]) :
             e \in ErrorParts }
    \cup { Json("object", "elem", "object", "elem", "empty", <<>>, "object",
                Str("quota exceeded")) }

UsableJson ==
    { Json("object", "elem", "object", "elem", "string", t, "absent", Unset) : t \in Texts }

JsonDocs == UnusableJson \cup UsableJson

(***************************************************************************)
(* Upstream responses and the outcomes of one fetch().                     *)
(***************************************************************************)
Body(readable, raw, json) == [readable |-> readable, raw |-> raw, json |-> json]
NoResponse == [status |-> 0, body |-> Body(FALSE, "", NotJson)]

OkResponses ==
    {[status |-> 200, body |-> Body(TRUE, "json", j)] : j \in JsonDocs}
    \cup {[status |-> 200, body |-> Body(TRUE, "<html>", NotJson)],
          [status |-> 200, body |-> Body(FALSE, "", NotJson)]}

FailResponses ==
    {[status |-> 429, body |-> Body(TRUE, "slow down", NotJson)],
     [status |-> 500, body |-> Body(TRUE, "overloaded", NotJson)],
     [status |-> 503, body |-> Body(FALSE, "", NotJson)]}

TransportErrors == { <<"">>, <<"ECONNRESET">> }

FetchOutcomes ==
    {[thrown |-> TRUE, error |-> e, response |-> NoResponse] : e \in TransportErrors}
    \cup {[thrown |-> FALSE, error |-> <<>>, response |-> x] : x \in OkResponses \cup FailResponses}

(***************************************************************************)
(* JavaScript helpers.                                                     *)
(***************************************************************************)
\* !x for a string-or-undefined value.
Falsy(f) == ~f.has \/ f.val = ""

\* response.ok
Ok(status) == status >= 200 /\ status <= 299

Pow2(n) == 2 ^ n

\* \s of the regular expression and of String.prototype.trim
IsSpace(c) == c \in {" ", "\n", "\t"}

RECURSIVE TrimStart(_)
TrimStart(s) == IF s # <<>> /\ IsSpace(Head(s)) THEN TrimStart(Tail(s)) ELSE s

RECURSIVE TrimEnd(_)
TrimEnd(s) ==
    IF s # <<>> /\ IsSpace(s[Len(s)]) THEN TrimEnd(SubSeq(s, 1, Len(s) - 1)) ELSE s

Trim(s) == TrimEnd(TrimStart(s))

\* s.split(/\s/)[0]
RECURSIVE FirstToken(_)
FirstToken(s) ==
    IF s = <<>> \/ IsSpace(Head(s)) THEN <<>> ELSE <<Head(s)>> \o FirstToken(Tail(s))

\* s.replace(/['"GRAVE.]/g, '')
IsStripped(c) == c \in {"'", "\"", Backtick, "."}

\* without the g flag: only the first match is removed
RECURSIVE StripCharsOnce(_)
StripCharsOnce(s) ==
    IF s = <<>> THEN <<>>
    ELSE IF IsStripped(Head(s)) THEN Tail(s)
    ELSE <<Head(s)>> \o StripCharsOnce(Tail(s))

\* quotes anywhere, periods only at the end
RECURSIVE DropTrailingPeriods(_)
DropTrailingPeriods(s) ==
    IF s # <<>> /\ s[Len(s)] = "." THEN DropTrailingPeriods(SubSeq(s, 1, Len(s) - 1)) ELSE s

StripCharsTrailing(s) ==
    DropTrailingPeriods(SelectSeq(s, LAMBDA c : c \notin {"'", "\"", Backtick}))

RECURSIVE StripChars(_)
StripChars(s) ==
    IF s = <<>> THEN <<>>
    ELSE IF IsStripped(Head(s)) THEN StripChars(Tail(s))
    ELSE <<Head(s)>> \o StripChars(Tail(s))

rawMove(text) == Trim(text)
cleanedMove(text) == StripChars(FirstToken(rawMove(text)))

(***************************************************************************)
(* Responses written to the caller.                                        *)
(***************************************************************************)
CorsHeaders == { <<"Access-Control-Allow-Origin", "*">>,
                 <<"Access-Control-Allow-Methods", "POST, OPTIONS">>,
                 <<"Access-Control-Allow-Headers", "Content-Type">> }

\* shape: "empty" (no body), "error" ({error}), "errorDetails" ({error, details}),
\* "move" ({move}) or "raw" (the upstream document as it came).
Response(status, shape, error, details, move, raw, headers) ==
    [status |-> status, shape |-> shape, error |-> error, details |-> details,
     move |-> move, raw |-> raw, headers |-> headers]

NoResp == Response(0, "none", <<>>, <<>>, <<>>, NotJson, {})

PreflightResponse == Response(200, "empty", <<>>, <<>>, <<>>, NotJson, CorsHeaders)

MethodNotAllowedResponse ==
    Response(405, "error", <<"Method Not Allowed. Use POST.">>, <<>>, <<>>, NotJson, CorsHeaders)

ConfigErrorResponse ==
    Response(500, "error", <<"Server configuration error: Gemini API Key is missing.">>,
             <<>>, <<>>, NotJson, CorsHeaders)

MissingFenResponse ==
    Response(400, "error", <<"Missing FEN string in request body.">>, <<>>, <<>>, NotJson,
             CorsHeaders)

InvalidBodyResponse ==
    Response(400, "error", <<"Invalid JSON request body.">>, <<>>, <<>>, NotJson, CorsHeaders)

GenericUpstreamMessage == "Gemini returned an empty or invalid response."

\* result.error?.message || 'Gemini returned an empty or invalid response.'
errorMessage(result) ==
    IF result.error = "object" /\ ~Falsy(result.message)
    THEN result.message.val
    ELSE GenericUpstreamMessage

UpstreamErrorResponse(result) ==
    Response(502, "error", <<"Gemini API Error: ", errorMessage(result)>>, <<>>, <<>>, NotJson,
             CorsHeaders)

MoveResponse(text) ==
    Response(200, "move", <<>>, <<>>, cleanedMove(text), NotJson, CorsHeaders)

\* details: error.message
ErrorDetailsOmitted(error) == <<>>
ErrorDetails(error) == error

CatchResponseGateway(error) ==
    Response(502, "errorDetails", <<"Failed to communicate with the Gemini API.">>,
             ErrorDetails(error), <<>>, NotJson, CorsHeaders)
CatchResponse(error) ==
    Response(CatchAllStatus, "errorDetails", <<"Failed to communicate with the Gemini API.">>,
             ErrorDetails(error), <<>>, NotJson, CorsHeaders)

(***************************************************************************)
(* Errors raised by the code and by the runtime.                           *)
(***************************************************************************)
RateLimitError == <<"Rate limit exceeded">>
HttpError(status, errorBody) == <<"HTTP error! status: ", ToString(status), ". Body: ", errorBody>>
BodyReadError == <<"body stream aborted">>
JsonSyntaxError == <<"Unexpected token < in JSON at position 0">>
UndefinedResponseError == <<"Cannot read properties of undefined (reading 'json')">>
NullResultError == <<"Cannot read properties of null (reading 'candidates')">>
DestructureError == <<"Cannot destructure property 'prompt' of 'req.body' as it is undefined.">>

(***************************************************************************)
(* The handler's gates (method, credential, body), in the order tested.    *)
(***************************************************************************)
KeyMissingUnsetOnly(key) == ~key.has
KeyMissing(key) == Falsy(key)

FenMissing(body) == Falsy(body.fen)

\* (variant: anything but POST is refused before the preflight is looked at)
HandlerGatePostOnly(key, method, body) ==
    IF method # "POST" THEN "method"
    ELSE IF KeyMissing(key) THEN "config"
    ELSE IF ~body.present THEN "invalidBody"
    ELSE IF FenMissing(body) THEN "missingFen"
    ELSE "pass"
\* (variant: the body is examined before the credential)
HandlerGateBodyFirst(key, method, body) ==
    IF method = "OPTIONS" THEN "preflight"
    ELSE IF method # "POST" THEN "method"
    ELSE IF ~body.present THEN "invalidBody"
    ELSE IF FenMissing(body) THEN "missingFen"
    ELSE IF KeyMissing(key) THEN "config"
    ELSE "pass"
HandlerGate(key, method, body) ==
    IF method = "OPTIONS" THEN "preflight"
    ELSE IF method # "POST" THEN "method"
    ELSE IF KeyMissing(key) THEN "config"
    ELSE IF ~body.present THEN "invalidBody"
    ELSE IF FenMissing(body) THEN "missingFen"
    ELSE "pass"

GateResponse(gate) ==
    CASE gate = "preflight" -> PreflightResponse
      [] gate = "method" -> MethodNotAllowedResponse
      [] gate = "config" -> ConfigErrorResponse
      [] gate = "invalidBody" -> InvalidBodyResponse
      [] OTHER -> MissingFenResponse

(***************************************************************************)
(* Reading the move out of the parsed upstream document.                   *)
(***************************************************************************)
\* result.candidates?.[0]
candidate(result) ==
    IF result.top # "object" \/ result.candidates \in {"absent", "null", "empty"}
    THEN "undefined"
    ELSE IF result.candidates = "nullElem" THEN "null" ELSE "object"

\* candidate.content?.parts?.[0]?.text
PartText(result) ==
    IF result.content = "object" /\ result.parts = "elem" /\ result.text # "absent"
    THEN [has |-> TRUE, val |-> result.chars]
    ELSE [has |-> FALSE, val |-> <<>>]

NoUsableText(result) ==
    \/ candidate(result) # "object"
    \/ ~PartText(result).has
    \/ PartText(result).val = <<>>

HandlerResult(result) ==
    IF result.top = "null" THEN CatchResponse(NullResultError)
    ELSE IF NoUsableText(result) THEN UpstreamErrorResponse(result)
    ELSE MoveResponse(PartText(result).val)

\* await apiResponse.json(), then the extraction
HandlerBodyResultLenient(body) ==
    IF ~body.readable THEN CatchResponse(BodyReadError)
    ELSE IF body.json.top = "invalid" THEN UpstreamErrorResponse(NotJson)
    ELSE HandlerResult(body.json)
HandlerBodyResult(body) ==
    IF ~body.readable THEN CatchResponse(BodyReadError)
    ELSE IF body.json.top = "invalid" THEN CatchResponse(JsonSyntaxError)
    ELSE HandlerResult(body.json)

(***************************************************************************)
(* fetchWithRetry: the loop tests and the backoff delay.                   *)
(***************************************************************************)
\* i < maxRetries
LoopContinues(n) == n < MaxRetries

\* i === maxRetries - 1
IsLastAttemptNever(n) == n = MaxRetries
IsLastAttemptEarly(n) == n = MaxRetries - 2
IsLastAttempt(n) == n = MaxRetries - 1

\* Math.pow(2, i) * 1000 + Math.random() * 1000
BackoffDelayShifted(n, jitter) == Pow2(n + 1) * BackoffBaseMs + jitter
BackoffDelayTenfold(n, jitter) == Pow2(n) * BackoffBaseMs * 10 + jitter
BackoffDelay(n, jitter) == Pow2(n) * BackoffBaseMs + jitter

Attempt(failed, kind, error) == [failed |-> failed, kind |-> kind, error |-> error]

(***************************************************************************)
(* State machine.  One record of state per request; a request sits at      *)
(* "idle" until it arrives, at "fetch", "errorBody", "wait" or "json"      *)
(* while it is suspended at the corresponding await, and at "done" once    *)
(* its response is written.                                                *)
(***************************************************************************)
InitRequests ==
    /\ req = [r \in RequestIds |-> NoRequest]
    /\ pc = [r \in RequestIds |-> "idle"]
    /\ i = [r \in RequestIds |-> 0]
    /\ calls = [r \in RequestIds |-> 0]
    /\ inflight = [r \in RequestIds |-> 0]
    /\ attempts = [r \in RequestIds |-> <<>>]
    /\ waits = [r \in RequestIds |-> <<>>]
    /\ upstream = [r \in RequestIds |-> NoResponse]
    /\ resp = [r \in RequestIds |-> NoResp]

Init ==
    /\ apiKey \in ApiKeys
    /\ server = "boot"
    /\ live = {1}
    /\ InitRequests

\* (variant of the loop head below: the counter is one module-level variable)
EnterLoopShared(r, n) ==
    /\ i' = [q \in RequestIds |-> n]
    /\ IF LoopContinues(n)
       THEN /\ calls' = [calls EXCEPT ![r] = @ + 1]
            /\ inflight' = [inflight EXCEPT ![r] = @ + 1]
            /\ pc' = [pc EXCEPT ![r] = "fetch"]
            /\ resp' = resp
       ELSE /\ pc' = [pc EXCEPT ![r] = "done"]
            /\ resp' = [resp EXCEPT ![r] = CatchResponse(UndefinedResponseError)]
            /\ UNCHANGED <<calls, inflight>>

\* The head of the for loop with counter n: either the next fetch() is issued,
\* or the loop is left and fetchWithRetry returns undefined, on which the
\* handler's apiResponse.json() throws into its catch block.
EnterLoop(r, n) ==
    /\ i' = [i EXCEPT ![r] = n]
    /\ IF LoopContinues(n)
       THEN /\ calls' = [calls EXCEPT ![r] = @ + 1]
            /\ inflight' = [inflight EXCEPT ![r] = @ + 1]
            /\ pc' = [pc EXCEPT ![r] = "fetch"]
            /\ resp' = resp
       ELSE /\ pc' = [pc EXCEPT ![r] = "done"]
            /\ resp' = [resp EXCEPT ![r] = CatchResponse(UndefinedResponseError)]
            /\ UNCHANGED <<calls, inflight>>

\* The catch block of fetchWithRetry for the error of the current attempt.
AttemptFailedWith(r, kind, error, jitters) ==
    /\ attempts' = [attempts EXCEPT ![r] = Append(@, Attempt(TRUE, kind, error))]
    /\ IF IsLastAttempt(i[r])
       THEN /\ pc' = [pc EXCEPT ![r] = "done"]
            /\ resp' = [resp EXCEPT ![r] = CatchResponse(error)]
            /\ waits' = waits
       ELSE /\ \E jitter \in jitters :
                 waits' = [waits EXCEPT ![r] = Append(@, BackoffDelay(i[r], jitter))]
            /\ pc' = [pc EXCEPT ![r] = "wait"]
            /\ resp' = resp

AttemptFailed(r, kind, error) == AttemptFailedWith(r, kind, error, JitterSamples)

\* handler(request, response) up to its first await.
HandlerReceive(r) ==
    /\ r \in live
    /\ pc[r] = "idle"
    /\ \E method \in Methods, body \in HandlerBodies :
         /\ req' = [req EXCEPT ![r] = [entry |-> "handler", method |-> method, body |-> body]]
         /\ IF HandlerGate(apiKey, method, body) = "pass"
            THEN EnterLoop(r, 0)
            ELSE /\ pc' = [pc EXCEPT ![r] = "done"]
                 /\ resp' = [resp EXCEPT ![r] = GateResponse(HandlerGate(apiKey, method, body))]
                 /\ UNCHANGED <<i, calls, inflight>>
    /\ UNCHANGED <<apiKey, server, live, attempts, waits, upstream>>

\* await fetch(url, options) settles.
FetchSettled(r, outcomes, jitters) ==
    /\ pc[r] = "fetch"
    /\ req[r].entry = "handler"
    /\ inflight' = [inflight EXCEPT ![r] = @ - 1]
    /\ \E o \in outcomes :
         IF o.thrown
         THEN /\ AttemptFailedWith(r, "throw", o.error, jitters)
              /\ upstream' = upstream
         ELSE IF o.response.status = 429
         THEN /\ AttemptFailedWith(r, "429", RateLimitError, jitters)
              /\ upstream' = upstream
         ELSE IF ~Ok(o.response.status)
         THEN /\ upstream' = [upstream EXCEPT ![r] = o.response]
              /\ pc' = [pc EXCEPT ![r] = "errorBody"]
              /\ UNCHANGED <<attempts, waits, resp>>
         ELSE /\ upstream' = [upstream EXCEPT ![r] = o.response]
              /\ attempts' = [attempts EXCEPT ![r] = Append(@, Attempt(FALSE, "ok", <<>>))]
              /\ pc' = [pc EXCEPT ![r] = "json"]
              /\ UNCHANGED <<waits, resp>>
    /\ UNCHANGED <<apiKey, server, live, req, i, calls>>

HandlerFetchSettles(r) == FetchSettled(r, FetchOutcomes, JitterSamples)

\* await response.text() of a non-ok response settles.
ErrorBodySettles(r) ==
    /\ pc[r] = "errorBody"
    /\ AttemptFailed(r, "status",
                     IF upstream[r].body.readable
                     THEN HttpError(upstream[r].status, upstream[r].body.raw)
                     ELSE BodyReadError)
    /\ UNCHANGED <<apiKey, server, live, req, i, calls, inflight, upstream>>

\* The setTimeout of the backoff fires: i++ and back to the loop head.
\* (variant: the retry is not held back until the attempt in flight settles)
TimerFiresEager(r) ==
    /\ pc[r] \in {"wait", "fetch"}
    /\ req[r].entry = "handler"
    /\ EnterLoop(r, i[r] + 1)
    /\ UNCHANGED <<apiKey, server, live, req, attempts, waits, upstream>>
\* (variant: the counter is advanced twice)
TimerFiresSkipping(r) ==
    /\ pc[r] = "wait"
    /\ EnterLoop(r, i[r] + 2)
    /\ UNCHANGED <<apiKey, server, live, req, attempts, waits, upstream>>
TimerFires(r) ==
    /\ pc[r] = "wait"
    /\ EnterLoop(r, i[r] + 1)
    /\ UNCHANGED <<apiKey, server, live, req, attempts, waits, upstream>>

\* await apiResponse.json() settles, and the handler answers.
HandlerJsonSettles(r) ==
    /\ pc[r] = "json"
    /\ req[r].entry = "handler"
    /\ pc' = [pc EXCEPT ![r] = "done"]
    /\ resp' = [resp EXCEPT ![r] = HandlerBodyResult(upstream[r].body)]
    /\ UNCHANGED <<apiKey, server, live, req, i, calls, inflight, attempts, waits, upstream>>

(***************************************************************************)
(* The standalone server.                                                  *)
(***************************************************************************)
ProxyError(error) ==
    Response(500, "error",
             IF error = <<"">> THEN <<"An unknown error occurred in the proxy.">> ELSE error,
             <<>>, <<>>, NotJson, {})

ProxyBadRequest ==
    Response(400, "error", <<"Missing 'prompt' or 'model' in request body.">>, <<>>, <<>>,
             NotJson, {})

\* Module load: process.exit(1) without the key, else app.listen.
ProxyStart ==
    /\ server = "boot"
    /\ server' = IF KeyMissing(apiKey) THEN "exited" ELSE "listening"
    /\ UNCHANGED <<apiKey, live, req, pc, i, calls, inflight, attempts, waits, upstream, resp>>

\* The route handler up to its await fetch.
ProxyReceive(r) ==
    /\ r \in live
    /\ server = "listening"
    /\ pc[r] = "idle"
    /\ \E body \in ProxyBodies :
         /\ req' = [req EXCEPT ![r] = [entry |-> "proxy", method |-> "POST", body |-> body]]
         /\ IF ~body.present
            THEN /\ pc' = [pc EXCEPT ![r] = "done"]
                 /\ resp' = [resp EXCEPT ![r] = ProxyError(DestructureError)]
                 /\ UNCHANGED <<calls, inflight>>
            ELSE IF Falsy(body.prompt) \/ Falsy(body.model)
            THEN /\ pc' = [pc EXCEPT ![r] = "done"]
                 /\ resp' = [resp EXCEPT ![r] = ProxyBadRequest]
                 /\ UNCHANGED <<calls, inflight>>
            ELSE /\ pc' = [pc EXCEPT ![r] = "fetch"]
                 /\ calls' = [calls EXCEPT ![r] = @ + 1]
                 /\ inflight' = [inflight EXCEPT ![r] = @ + 1]
                 /\ resp' = resp
    /\ UNCHANGED <<apiKey, server, live, i, attempts, waits, upstream>>

\* (variant: a thrown fetch is tried again, up to MaxRetries calls)
ProxyFetchSettlesRetrying(r) ==
    /\ pc[r] = "fetch"
    /\ req[r].entry = "proxy"
    /\ \E o \in FetchOutcomes :
         IF o.thrown
         THEN /\ attempts' = [attempts EXCEPT ![r] = Append(@, Attempt(TRUE, "throw", o.error))]
              /\ IF calls[r] < MaxRetries
                 THEN /\ calls' = [calls EXCEPT ![r] = @ + 1]
                      /\ UNCHANGED <<pc, resp, inflight>>
                 ELSE /\ pc' = [pc EXCEPT ![r] = "done"]
                      /\ resp' = [resp EXCEPT ![r] = ProxyError(o.error)]
                      /\ inflight' = [inflight EXCEPT ![r] = @ - 1]
                      /\ calls' = calls
              /\ upstream' = upstream
         ELSE /\ attempts' = [attempts EXCEPT ![r] =
                                 Append(@, Attempt(FALSE,
                                                   IF Ok(o.response.status) THEN "ok"
                                                   ELSE IF o.response.status = 429 THEN "429"
                                                   ELSE "status", <<>>))]
              /\ upstream' = [upstream EXCEPT ![r] = o.response]
              /\ pc' = [pc EXCEPT ![r] = "json"]
              /\ inflight' = [inflight EXCEPT ![r] = @ - 1]
              /\ UNCHANGED <<resp, calls>>
    /\ UNCHANGED <<apiKey, server, live, req, i, waits>>
ProxyFetchSettles(r) ==
    /\ pc[r] = "fetch"
    /\ req[r].entry = "proxy"
    /\ inflight' = [inflight EXCEPT ![r] = @ - 1]
    /\ \E o \in FetchOutcomes :
         IF o.thrown
         THEN /\ attempts' = [attempts EXCEPT ![r] = Append(@, Attempt(TRUE, "throw", o.error))]
              /\ pc' = [pc EXCEPT ![r] = "done"]
              /\ resp' = [resp EXCEPT ![r] = ProxyError(o.error)]
              /\ upstream' = upstream
         ELSE /\ attempts' = [attempts EXCEPT ![r] =
                                 Append(@, Attempt(FALSE,
                                                   IF Ok(o.response.status) THEN "ok"
                                                   ELSE IF o.response.status = 429 THEN "429"
                                                   ELSE "status", <<>>))]
              /\ upstream' = [upstream EXCEPT ![r] = o.response]
              /\ pc' = [pc EXCEPT ![r] = "json"]
              /\ resp' = resp
    /\ UNCHANGED <<apiKey, server, live, req, i, calls, waits>>

ProxyJsonSettles(r) ==
    /\ pc[r] = "json"
    /\ req[r].entry = "proxy"
    /\ pc' = [pc EXCEPT ![r] = "done"]
    /\ resp' = [resp EXCEPT ![r] =
                  IF ~upstream[r].body.readable THEN ProxyError(BodyReadError)
                  ELSE IF upstream[r].body.json.top = "invalid" THEN ProxyError(JsonSyntaxError)
                  ELSE Response(200, "raw", <<>>, <<>>, <<>>, upstream[r].body.json, {})]
    /\ UNCHANGED <<apiKey, server, live, req, i, calls, inflight, attempts, waits, upstream>>

Next ==
    \/ ProxyStart
    \/ \E r \in RequestIds : HandlerReceive(r)
    \/ \E r \in RequestIds : HandlerFetchSettles(r)
    \/ \E r \in RequestIds : ErrorBodySettles(r)
    \/ \E r \in RequestIds : TimerFires(r)
    \/ \E r \in RequestIds : HandlerJsonSettles(r)
    \/ \E r \in RequestIds : ProxyReceive(r)
    \/ \E r \in RequestIds : ProxyFetchSettles(r)
    \/ \E r \in RequestIds : ProxyJsonSettles(r)

Spec == Init /\ [][Next]_vars

(***************************************************************************)
(* Vocabulary of the properties.                                           *)
(***************************************************************************)
Served(r) == pc[r] # "idle"
Done(r) == pc[r] = "done"
ByHandler(r) == req[r].entry = "handler"
ByProxy(r) == req[r].entry = "proxy"

CredentialSet == apiKey.has /\ apiKey.val # ""

\* A POST to the handler with the credential set and a non-empty fen.
ValidPost(r) ==
    /\ ByHandler(r)
    /\ req[r].method = "POST"
    /\ CredentialSet
    /\ req[r].body.present
    /\ req[r].body.fen.has /\ req[r].body.fen.val # ""

Settled(r) == Len(attempts[r])
AllFailed(r) == \A k \in 1..Settled(r) : attempts[r][k].failed
AllRateLimited(r) == \A k \in 1..Settled(r) : attempts[r][k].kind = "429"
LastOk(r) == Settled(r) > 0 /\ ~attempts[r][Settled(r)].failed
Exhausted(r) == ValidPost(r) /\ Done(r) /\ Settled(r) = 5 /\ AllFailed(r)

RECURSIVE Sum(_)
Sum(s) == IF s = <<>> THEN 0 ELSE Head(s) + Sum(Tail(s))

\* C1: a valid POST whose every attempt is answered 429 makes exactly 5
\* outbound calls, and only after the 5th does the caller get an error
\* response, which carries the rate-limit error of the exhausted retries.
C1_RateLimitedFiveCalls ==
    \A r \in RequestIds :
        (ValidPost(r) /\ AllRateLimited(r)) =>
            /\ calls[r] <= 5
            /\ Done(r) <=> Settled(r) = 5
            /\ resp[r] # NoResp <=> Settled(r) = 5
            /\ Done(r) => /\ calls[r] = 5
                          /\ resp[r].status >= 500
                          /\ resp[r].shape = "errorDetails"
                          /\ resp[r].details = <<"Rate limit exceeded">>

C1_Witness ==
    \E r \in RequestIds :
        ValidPost(r) /\ AllRateLimited(r) /\ Done(r) /\ calls[r] = 5 /\ resp[r].status >= 500

\* C2: retry is transparent.  No failure is surfaced before the 5th failed
\* attempt; when k < 5 attempts failed and attempt k+1 is ok, exactly k+1
\* calls and k waits were made (none for k = 0), and the answer is the
\* success built from that response alone: 200 with the move and no error
\* or details of the earlier failures.
C2_RetryTransparent ==
    \A r \in RequestIds :
        ValidPost(r) =>
            /\ (Done(r) /\ AllFailed(r)) => Settled(r) = 5
            /\ LastOk(r) =>
                 /\ Settled(r) <= 5
                 /\ \A k \in 1..(Settled(r) - 1) : attempts[r][k].failed
                 /\ calls[r] = Settled(r)
                 /\ Len(waits[r]) = Settled(r) - 1
                 /\ inflight[r] = 0
            /\ (Done(r) /\ LastOk(r) /\ upstream[r].body.readable
                  /\ upstream[r].body.json.text = "string") =>
                 resp[r] = Response(200, "move", <<>>, <<>>,
                                    cleanedMove(upstream[r].body.json.chars), NotJson,
                                    CorsHeaders)

C2_Witness ==
    \E r \in RequestIds :
        /\ ValidPost(r) /\ Done(r) /\ LastOk(r) /\ Settled(r) = 5
        /\ {attempts[r][k].kind : k \in 1..4} = {"throw", "429", "status"}
        /\ resp[r].status = 200
        /\ resp[r].move = <<"N", "f", "6">>

\* C3: when all 5 attempts fail, the details of the answer are the error
\* message of the 5th attempt.
C3_LastErrorSurfaced ==
    \A r \in RequestIds :
        Exhausted(r) =>
            /\ resp[r].shape = "errorDetails"
            /\ resp[r].details = attempts[r][5].error

C3_Witness ==
    \E r \in RequestIds :
        /\ Exhausted(r)
        /\ \A k \in 1..4 : attempts[r][k].error # attempts[r][5].error
        /\ resp[r].details = attempts[r][5].error

\* C4: a POST whose required field is missing or empty (fen for the handler;
\* prompt or model for the standalone server), or whose body is absent, is
\* answered 400 with an error message and makes no outbound call.
InvalidInput(r) ==
    /\ req[r].method = "POST"
    /\ \/ /\ ByHandler(r)
          /\ CredentialSet
          /\ \/ ~req[r].body.present
             \/ ~req[r].body.fen.has
             \/ req[r].body.fen.val = ""
       \/ /\ ByProxy(r)
          /\ \/ ~req[r].body.present
             \/ ~req[r].body.prompt.has \/ req[r].body.prompt.val = ""
             \/ ~req[r].body.model.has \/ req[r].body.model.val = ""

C4_ValidationNeverCalls ==
    \A r \in RequestIds :
        (Served(r) /\ InvalidInput(r)) =>
            /\ Done(r)
            /\ calls[r] = 0
            /\ resp[r].status = 400
            /\ resp[r].shape = "error"
            /\ resp[r].error # <<>>

\* C5: without the credential (unset or empty) every POST to the handler is
\* answered 500 with the configuration-error message and makes no outbound
\* call, whatever its body; the standalone server serves no request without
\* the credential.
C5_MissingCredential ==
    \A r \in RequestIds :
        /\ (Served(r) /\ ByHandler(r) /\ req[r].method = "POST" /\ ~CredentialSet) =>
              /\ Done(r)
              /\ calls[r] = 0
              /\ resp[r].status = 500
              /\ resp[r].shape = "error"
              /\ resp[r].error = <<"Server configuration error: Gemini API Key is missing.">>
        /\ (Served(r) /\ ByProxy(r)) => CredentialSet
        /\ server = "listening" => CredentialSet

C5_Witness ==
    \E r \in RequestIds :
        /\ Served(r) /\ ByHandler(r) /\ req[r].method = "POST"
        /\ apiKey = Str("")
        /\ req[r].body.fen = Str("x")
        /\ resp[r].status = 500
        /\ server = "exited"

\* C6 (as stated): the wait before attempt k (0-indexed) lies in
\* [2^k * 1000, 2^k * 1000 + 1000).  waits[r][k] is the wait that precedes
\* the attempt with loop counter k.
C6_DelayBeforeAttempt ==
    \A r \in RequestIds :
        \A k \in 1..Len(waits[r]) :
            /\ waits[r][k] >= Pow2(k) * 1000
            /\ waits[r][k] < Pow2(k) * 1000 + 1000

\* C6 (amended): the wait that follows the failed attempt k (0-indexed), that
\* is the wait before attempt k + 1, lies in [2^k * 1000, 2^k * 1000 + 1000).
C6_DelayAfterAttempt ==
    \A r \in RequestIds :
        \A k \in 0..(Len(waits[r]) - 1) :
            /\ waits[r][k + 1] >= Pow2(k) * 1000
            /\ waits[r][k + 1] < Pow2(k) * 1000 + 1000

C6_Witness ==
    \E r \in RequestIds :
        /\ ValidPost(r)
        /\ Len(waits[r]) = 4
        /\ waits[r][1] = 1000
        /\ waits[r][4] = 8999

\* C7: when all 5 attempts fail, the waits of the request add up to at most
\* 32000 ms plus 1000 ms of jitter for each wait.
C7_TotalBackoffCapped ==
    \A r \in RequestIds :
        Exhausted(r) => Sum(waits[r]) <= 32000 + 1000 * Len(waits[r])

C7_Witness ==
    \E r \in RequestIds :
        Exhausted(r) /\ Len(waits[r]) = 4 /\ Sum(waits[r]) = 15000 + 4 * 999

\* C8 (as stated): exhausted retries are answered 502 with the last error's
\* detail, a status different from that of the missing credential.
C8_ExhaustedIsGateway ==
    \A r \in RequestIds :
        Exhausted(r) =>
            /\ resp[r].status = 502
            /\ resp[r].details = attempts[r][5].error
            /\ resp[r].status # ConfigErrorResponse.status

\* C8 (amended): exhausted retries are answered 500 with the error
\* "Failed to communicate with the Gemini API." and the last error's message
\* as details; the status is the one of the missing credential, and only
\* the body tells the two apart.
C8_ExhaustedIsCatchAll ==
    \A r \in RequestIds :
        Exhausted(r) =>
            /\ resp[r].status = 500
            /\ resp[r].error = <<"Failed to communicate with the Gemini API.">>
            /\ resp[r].shape = "errorDetails"
            /\ resp[r].details = attempts[r][5].error
            /\ resp[r].status = ConfigErrorResponse.status
            /\ resp[r].error # ConfigErrorResponse.error

C8_Witness ==
    \E r \in RequestIds :
        /\ Exhausted(r)
        /\ attempts[r][5].kind = "status"
        /\ resp[r].status = 500
        /\ resp[r].details = <<"HTTP error! status: ", "500", ". Body: ", "overloaded">>

\* C9: an ok response that parses as JSON without a usable text (no
\* candidates, no first candidate, no parts, text absent or empty) is answered
\* 502 with the embedded error.message if there is one and the generic message
\* otherwise, and without a move.
ParsedUnusable(r) ==
    /\ ByHandler(r) /\ Done(r) /\ LastOk(r)
    /\ upstream[r].body.readable
    /\ upstream[r].body.json.top # "invalid"
    /\ upstream[r].body.json.text # "string"

EmbeddedMessage(j) ==
    IF j.error = "object" /\ j.message.has /\ j.message.val # ""
    THEN j.message.val
    ELSE "Gemini returned an empty or invalid response."

C9_UnusableResultIs502 ==
    \A r \in RequestIds :
        ParsedUnusable(r) =>
            /\ resp[r].status = 502
            /\ resp[r].shape = "error"
            /\ resp[r].error = <<"Gemini API Error: ", EmbeddedMessage(upstream[r].body.json)>>
            /\ resp[r].move = <<>>

\* C10 (as stated): an ok response whose body does not parse as JSON is
\* answered 502, like an absent result field.
ParseFailed(r) ==
    /\ ByHandler(r) /\ Done(r) /\ LastOk(r)
    /\ upstream[r].body.readable
    /\ upstream[r].body.json.top = "invalid"

C10_ParseFailureIs502 ==
    \A r \in RequestIds : ParseFailed(r) => resp[r].status = 502

\* C10 (amended): an ok response whose body does not parse as JSON is
\* answered by the catch-all: 500, "Failed to communicate with the Gemini
\* API.", with the parser's message as details; not the 502 of an absent
\* result field.
C10_ParseFailureIsCatchAll ==
    \A r \in RequestIds :
        ParseFailed(r) =>
            /\ resp[r].status = 500
            /\ resp[r].shape = "errorDetails"
            /\ resp[r].error = <<"Failed to communicate with the Gemini API.">>
            /\ resp[r].details = JsonSyntaxError

C10_Witness ==
    \E r \in RequestIds :
        ParseFailed(r) /\ upstream[r].body.raw = "<html>" /\ resp[r].status = 500

(***************************************************************************)
(* The extraction step on its own: the handler suspended at                *)
(* await apiResponse.json() after a first ok attempt, for every upstream   *)
(* text of up to MaxTextLen characters over Alphabet and for the sample    *)
(* texts.                                                                  *)
(***************************************************************************)
MaxTextLen == 3

Alphabet == {"a", " ", "\n", "'", "\"", Backtick, "."}

AllTexts == UNION {[1..n -> Alphabet] : n \in 0..MaxTextLen}

TextDoc(t) ==
    Json("object", "elem", "object", "elem", IF t = <<>> THEN "empty" ELSE "string", t,
         "absent", Unset)

InitSanitize ==
    /\ apiKey = Str("secret")
    /\ server = "boot"
    /\ live = {1}
    /\ req = [r \in RequestIds |->
                IF r = 1
                THEN [entry |-> "handler", method |-> "POST",
                      body |-> [present |-> TRUE, fen |-> Str("x"), prompt |-> Unset,
                                model |-> Unset]]
                ELSE NoRequest]
    /\ pc = [r \in RequestIds |-> IF r = 1 THEN "json" ELSE "idle"]
    /\ i = [r \in RequestIds |-> 0]
    /\ calls = [r \in RequestIds |-> IF r = 1 THEN 1 ELSE 0]
    /\ inflight = [r \in RequestIds |-> 0]
    /\ attempts = [r \in RequestIds |-> IF r = 1 THEN <<Attempt(FALSE, "ok", <<>>)>> ELSE <<>>]
    /\ waits = [r \in RequestIds |-> <<>>]
    /\ \E t \in AllTexts \cup Texts :
         upstream = [r \in RequestIds |->
                       IF r = 1 THEN [status |-> 200, body |-> Body(TRUE, "json", TextDoc(t))]
                       ELSE NoResponse]
    /\ resp = [r \in RequestIds |-> NoResp]

NextSanitize == \E r \in RequestIds : HandlerJsonSettles(r)

SpecSanitize == InitSanitize /\ [][NextSanitize]_vars

\* The upstream text the handler of request r extracted its answer from.
TextOf(r) == upstream[r].body.json.chars
Answered(r) == ByHandler(r) /\ req[r].method = "POST" /\ Done(r)

\* C11: every 200 answer to a POST carries a clean single token: a non-empty
\* move without whitespace, quote character or period; every other answer is
\* a structured error.
CleanToken(m) ==
    /\ m # <<>>
    /\ \A k \in 1..Len(m) : m[k] \notin {" ", "\n", "\t", "'", "\"", Backtick, "."}

C11_CleanTokenOrError ==
    \A r \in RequestIds :
        Answered(r) =>
            IF resp[r].status = 200
            THEN resp[r].shape = "move" /\ CleanToken(resp[r].move)
            ELSE /\ resp[r].shape \in {"error", "errorDetails"}
                 /\ resp[r].error # <<>>
                 /\ resp[r].move = <<>>

\* C12: sanitization is idempotent: for every upstream text, sanitizing the
\* sanitized text gives the sanitized text again, and so does sanitizing the
\* move that was returned.
C12_SanitizeIdempotent ==
    \A r \in RequestIds :
        (ByHandler(r) /\ LastOk(r)) =>
            /\ cleanedMove(cleanedMove(TextOf(r))) = cleanedMove(TextOf(r))
            /\ (Done(r) /\ resp[r].status = 200) => cleanedMove(resp[r].move) = resp[r].move

C12_Witness ==
    \E r \in RequestIds :
        /\ Answered(r) /\ resp[r].status = 200
        /\ TextOf(r) = <<"'", "'", "a">>
        /\ resp[r].move = <<"a">>

\* The reference sanitization, written by positions rather than by recursion.
Least(S) == CHOOSE k \in S : \A m \in S : k <= m
Greatest(S) == CHOOSE k \in S : \A m \in S : k >= m

RefTrim(s) ==
    LET solid == {k \in 1..Len(s) : s[k] \notin {" ", "\n", "\t"}}
    IN  IF solid = {} THEN <<>> ELSE SubSeq(s, Least(solid), Greatest(solid))

RefFirstToken(s) ==
    LET blank == {k \in 1..Len(s) : s[k] \in {" ", "\n", "\t"}}
    IN  IF blank = {} THEN s ELSE SubSeq(s, 1, Least(blank) - 1)

RefWithout(s, chars) == SelectSeq(s, LAMBDA c : c \notin chars)

RefDropTrailingPeriods(s) ==
    LET kept == {k \in 1..Len(s) : s[k] # "."}
    IN  IF kept = {} THEN <<>> ELSE SubSeq(s, 1, Greatest(kept))

RefTrailingPeriods(s) ==
    RefDropTrailingPeriods(RefWithout(RefFirstToken(RefTrim(s)), {"'", "\"", Backtick}))

RefAllPeriods(s) ==
    RefWithout(RefFirstToken(RefTrim(s)), {"'", "\"", Backtick, "."})

Examples(r) ==
    /\ TextOf(r) = <<"N", "f", "6", "\n">> => resp[r].move = <<"N", "f", "6">>
    /\ TextOf(r) = <<"'", "e", "4", "'", ".">> => resp[r].move = <<"e", "4">>
    /\ TextOf(r) = <<"Q", "x", "g", "7", " ", "(", "b", "e", "s", "t", ")">>
         => resp[r].move = <<"Q", "x", "g", "7">>

\* C13 (as stated): the returned move is the text trimmed, cut to its first
\* whitespace-delimited token, without quote characters and without its
\* trailing periods; periods elsewhere in the token are kept.
C13_TrailingPeriodsOnly ==
    \A r \in RequestIds :
        (Answered(r) /\ resp[r].status = 200) =>
            /\ resp[r].move = RefTrailingPeriods(TextOf(r))
            /\ Examples(r)

\* C13 (amended): the returned move is the text trimmed, cut to its first
\* whitespace-delimited token, without quote characters and without any
\* period, wherever it stands in the token.
C13_AllPeriodsRemoved ==
    \A r \in RequestIds :
        (Answered(r) /\ resp[r].status = 200) =>
            /\ resp[r].move = RefAllPeriods(TextOf(r))
            /\ Examples(r)

C13_Witness ==
    \E r \in RequestIds :
        /\ Answered(r) /\ resp[r].status = 200
        /\ TextOf(r) = <<"a", ".", "a">>
        /\ resp[r].move = <<"a", "a">>

\* C14: an OPTIONS request to the handler is answered 200 without a body and
\* with the three CORS headers, and any method other than POST and OPTIONS is
\* answered 405, whatever the credential and the body are; neither makes an
\* outbound call.
C14_MethodGate ==
    \A r \in RequestIds :
        (Served(r) /\ ByHandler(r) /\ req[r].method # "POST") =>
            /\ Done(r)
            /\ calls[r] = 0
            /\ attempts[r] = <<>>
            /\ resp[r].headers = { <<"Access-Control-Allow-Origin", "*">>,
                                   <<"Access-Control-Allow-Methods", "POST, OPTIONS">>,
                                   <<"Access-Control-Allow-Headers", "Content-Type">> }
            /\ IF req[r].method = "OPTIONS"
               THEN resp[r].status = 200 /\ resp[r].shape = "empty"
               ELSE resp[r].status = 405 /\ resp[r].shape = "error"

C14_Witness ==
    \E r \in RequestIds :
        /\ ByHandler(r) /\ req[r].method = "OPTIONS"
        /\ ~CredentialSet
        /\ ~req[r].body.present
        /\ resp[r].status = 200

\* C15 (as stated): the standalone server, like the handler, makes a further
\* outbound attempt after a retryable failure of its first one (transport
\* throw, 429 or other non-ok status).
FirstAttemptFailed(r) == Settled(r) >= 1 /\ attempts[r][1].kind \in {"throw", "429", "status"}

C19_WaitsBetweenAttempts ==
    \A r \in RequestIds :
        ValidPost(r) =>
            /\ pc[r] \in {"fetch", "errorBody"} =>
                  AllFailed(r) /\ Len(waits[r]) = Settled(r) /\ calls[r] = Settled(r) + 1
            /\ pc[r] = "wait" =>
                  AllFailed(r) /\ Len(waits[r]) = Settled(r) /\ calls[r] = Settled(r)
                  /\ Settled(r) <= 4
            /\ (AllFailed(r) /\ Settled(r) = 5) =>
                  /\ Done(r)
                  /\ Len(waits[r]) = 4
                  /\ calls[r] = 5
                  /\ inflight[r] = 0
                  /\ resp[r].details = attempts[r][5].error

C19_Witness ==
    \E r \in RequestIds :
        Exhausted(r) /\ Len(waits[r]) = 4 /\ calls[r] = 5 /\ attempts[r][5].kind = "throw"

\* C20: the handler tests the method, then the credential, then the body, and
\* the first failing test alone decides the answer: a POST with neither
\* credential nor fen is answered 500 (configuration error), and a request
\* that is not a POST is answered 200 (OPTIONS) or 405 with or without the
\* credential.
C20_GateOrder ==
    \A r \in RequestIds :
        (Served(r) /\ ByHandler(r)) =>
            /\ req[r].method = "OPTIONS" => resp[r].status = 200
            /\ req[r].method \notin {"OPTIONS", "POST"} => resp[r].status = 405
            /\ (req[r].method = "POST" /\ ~CredentialSet) =>
                  /\ resp[r].status = 500
                  /\ resp[r].error = <<"Server configuration error: Gemini API Key is missing.">>
            /\ (req[r].method = "POST" /\ CredentialSet
                  /\ (~req[r].body.present \/ ~req[r].body.fen.has \/ req[r].body.fen.val = "")) =>
                  resp[r].status = 400

C20_Witness ==
    \E r \in RequestIds :
        /\ Served(r) /\ ByHandler(r) /\ req[r].method = "POST"
        /\ ~CredentialSet
        /\ req[r].body.present /\ ~req[r].body.fen.has
        /\ resp[r].status = 500

(***************************************************************************)
(* The handler alone, against an upstream with one outcome of each kind    *)
(* (thrown fetch, 429, non-ok status, ok with a move) and one jitter       *)
(* value: SpecRetry runs one request under the assumption that every       *)
(* outbound call, body read and timer completes; SpecConcurrent            *)
(* interleaves two requests at their awaits.                               *)
(***************************************************************************)
CoreOutcomes ==
    {[thrown |-> TRUE, error |-> <<"ECONNRESET">>, response |-> NoResponse],
     [thrown |-> FALSE, error |-> <<>>,
      response |-> [status |-> 429, body |-> Body(TRUE, "slow down", NotJson)]],
     [thrown |-> FALSE, error |-> <<>>,
      response |-> [status |-> 500, body |-> Body(TRUE, "overloaded", NotJson)]],
     [thrown |-> FALSE, error |-> <<>>,
      response |-> [status |-> 200,
                    body |-> Body(TRUE, "json", TextDoc(<<"N", "f", "6", "\n">>))]]}

CoreJitter == {JitterRangeMs - 1}

CoreFetchSettles(r) == FetchSettled(r, CoreOutcomes, CoreJitter)

CoreErrorBodySettles(r) ==
    /\ pc[r] = "errorBody"
    /\ AttemptFailedWith(r, "status",
                         IF upstream[r].body.readable
                         THEN HttpError(upstream[r].status, upstream[r].body.raw)
                         ELSE BodyReadError,
                         CoreJitter)
    /\ UNCHANGED <<apiKey, server, live, req, i, calls, inflight, upstream>>

NextCore ==
    \/ \E r \in RequestIds : HandlerReceive(r)
    \/ \E r \in RequestIds : CoreFetchSettles(r)
    \/ \E r \in RequestIds : CoreErrorBodySettles(r)
    \/ \E r \in RequestIds : TimerFires(r)
    \/ \E r \in RequestIds : HandlerJsonSettles(r)

Completion ==
    \A r \in RequestIds :
        /\ WF_vars(CoreFetchSettles(r))
        /\ WF_vars(CoreErrorBodySettles(r))
        /\ WF_vars(TimerFires(r))
        /\ WF_vars(HandlerJsonSettles(r))

SpecRetry == Init /\ [][NextCore]_vars /\ Completion

InitConcurrent ==
    /\ apiKey \in ApiKeys
    /\ server = "boot"
    /\ live = RequestIds
    /\ InitRequests

SpecConcurrent == InitConcurrent /\ [][NextCore]_vars

\* C16: within one request the attempts are strictly sequential.  At most
\* one outbound call is in flight; a call is started only by the arrival of
\* the request or when the wait that followed a failed attempt has elapsed,
\* never while a call is in flight and never after an ok attempt; and the
\* answer comes from the first ok attempt or else carries the error of the
\* final attempt.
C16_State ==
    \A r \in RequestIds :
        (Served(r) /\ ByHandler(r)) =>
            /\ inflight[r] \in {0, 1}
            /\ inflight[r] = 1 <=> pc[r] = "fetch"
            /\ \A k \in 1..(Settled(r) - 1) : attempts[r][k].failed
            /\ (Done(r) /\ LastOk(r) /\ upstream[r].body.readable
                  /\ upstream[r].body.json.text = "string") =>
                 /\ resp[r].status = 200
                 /\ resp[r].move = RefAllPeriods(TextOf(r))
            /\ (Done(r) /\ Settled(r) > 0 /\ AllFailed(r)) =>
                 /\ Settled(r) = 5
                 /\ resp[r].details = attempts[r][5].error

C16_Step ==
    \A r \in RequestIds :
        calls'[r] # calls[r] =>
            /\ calls'[r] = calls[r] + 1
            /\ inflight[r] = 0
            /\ inflight'[r] = 1
            /\ ~LastOk(r)
            /\ \/ pc[r] = "idle" /\ Settled(r) = 0
               \/ /\ pc[r] = "wait"
                  /\ Settled(r) = calls[r]
                  /\ AllFailed(r)
                  /\ Len(waits[r]) = Settled(r)

C16_Sequential == []C16_State /\ [][C16_Step]_vars

C16_Witness ==
    \E r \in RequestIds :
        /\ ValidPost(r) /\ pc[r] = "fetch" /\ inflight[r] = 1
        /\ calls[r] = 3 /\ Settled(r) = 2 /\ Len(waits[r]) = 2

\* C17: two requests interleaved at their awaits are independent.  Each has
\* its own attempt counter, which counts its own elapsed waits; each makes
\* at most 5 calls; a step of one request changes nothing of the other; and
\* two requests with the same input and the same upstream outcomes get the
\* same answer.
StateOf(r) ==
    <<req[r], pc[r], i[r], calls[r], inflight[r], attempts[r], waits[r], upstream[r], resp[r]>>

C17_State ==
    /\ \A r \in RequestIds :
          (Served(r) /\ ByHandler(r)) =>
              /\ calls[r] <= 5
              /\ i[r] \in 0..4
              /\ i[r] = IF pc[r] = "wait" THEN Len(waits[r]) - 1 ELSE Len(waits[r])
              /\ pc[r] \in {"fetch", "errorBody"} => calls[r] = i[r] + 1
    /\ \A r, q \in RequestIds :
          (Done(r) /\ Done(q) /\ req[r] = req[q] /\ attempts[r] = attempts[q]
             /\ upstream[r] = upstream[q]) => resp[r] = resp[q]

C17_Step ==
    \A r, q \in RequestIds :
        (r # q /\ StateOf(r)' # StateOf(r)) => StateOf(q)' = StateOf(q)

C17_Independent == []C17_State /\ [][C17_Step]_vars

C17_Witness ==
    /\ ValidPost(1) /\ ValidPost(2)
    /\ pc[1] = "wait" /\ i[1] = 3
    /\ pc[2] = "fetch" /\ i[2] = 1
    /\ calls[1] = 4 /\ calls[2] = 2

\* C18: the retry loop is the machine Attempting(n), Succeeded,
\* ExhaustedFailed.  It starts in Attempting(0); n stays in 0..4 and changes
\* only by one, when the wait after a failed attempt has elapsed; Succeeded
\* and ExhaustedFailed are never left; fetchWithRetry never ends by leaving
\* the loop; and if every call, body read and timer completes, every run
\* reaches Succeeded or ExhaustedFailed.
Attempting(r) == ValidPost(r) /\ pc[r] \in {"fetch", "errorBody", "wait"}
Succeeded(r) == ValidPost(r) /\ LastOk(r) /\ pc[r] \in {"json", "done"}
ExhaustedFailed(r) == Exhausted(r)

C18_State ==
    \A r \in RequestIds :
        (Served(r) /\ ValidPost(r)) =>
            /\ i[r] \in 0..4
            /\ \/ Attempting(r) /\ ~Succeeded(r) /\ ~ExhaustedFailed(r) /\ AllFailed(r)
               \/ ~Attempting(r) /\ Succeeded(r) /\ ~ExhaustedFailed(r)
               \/ ~Attempting(r) /\ ~Succeeded(r) /\ ExhaustedFailed(r)
            /\ Done(r) => resp[r].details # UndefinedResponseError

C18_Step ==
    \A r \in RequestIds :
        /\ (pc[r] = "idle" /\ pc'[r] # "idle") => i'[r] = 0
        /\ i'[r] # i[r] =>
              /\ i'[r] = i[r] + 1
              /\ Attempting(r) /\ Attempting(r)'
              /\ pc[r] = "wait"
              /\ attempts[r][Settled(r)].failed
        /\ Succeeded(r) =>
              Succeeded(r)' /\ attempts'[r] = attempts[r] /\ calls'[r] = calls[r] /\ i'[r] = i[r]
        /\ ExhaustedFailed(r) => StateOf(r)' = StateOf(r)

C18_RetryMachine ==
    /\ []C18_State
    /\ [][C18_Step]_vars
    /\ \A r \in RequestIds : Attempting(r) ~> (Succeeded(r) \/ ExhaustedFailed(r))

C18_Witness ==
    \E r \in RequestIds :
        Succeeded(r) /\ Done(r) /\ i[r] = 4 /\ Settled(r) = 5 /\ resp[r].status = 200

====
